---- MODULE Spec2Model ----
(***************************************************************************)
(* ElGamal encryption + BLS authentication over a pairing group, and the   *)
(* attack that recovers the plaintext (src/src/main.rs).                   *)
(*                                                                         *)
(* The pairing groups G1, G2 and GT of BLS12-381 all have the same prime   *)
(* order r.  An element is represented by its discrete logarithm with      *)
(* respect to the group's generator, so G1 = G2 = GT = 0..Q-1 with Q a     *)
(* small prime standing for r, 0 the identity, 1 the generator, and        *)
(* pairing(p, q) = p*q mod Q (additive notation, as arkworks'              *)
(* PairingOutput).  Scalars of Fr are the integers mod Q.  The u64         *)
(* arithmetic of baby_giant stays far below 2^64 at these bit widths.      *)
(***************************************************************************)
EXTENDS Integers, Sequences, FiniteSets

\* Order of the scalar field Fr (and of G1, G2, GT), scaled down to a prime.
Q == 17

\* Largest max_bitwidth the solver is run with; 2^MaxBits < Q, as 2^64 < r.
MaxBits == 4

\* Secret scalars range over 0..MaxSecret (0 is a valid element of Fr).
MaxSecret == 3

\* A tampered c2 differs from the original by 1..MaxDelta.
MaxDelta == 2

\* Coordinates of the points of a blob read from blob.bin range over 0..MaxPoint.
MaxPoint == 2

G2 == 0..(Q - 1)
GT == 0..(Q - 1)

\* G1Projective::generator()
g1 == 1

\* Fr::from(u64)
FrFrom(n) == n % Q

\* Group operations on discrete logarithms.
Mul(p, k) == (p * k) % Q
Add(p, q) == (p + q) % Q
Sub(p, q) == (p - q + Q) % Q

\* Bls12_381::pairing: bilinear and non-degenerate.
pairing(p, q) == (p * q) % Q

\* 1u64 << e
RECURSIVE Pow2(_)
Pow2(e) == IF e = 0 THEN 1 ELSE 2 * Pow2(e - 1)

Secrets == 0..MaxSecret
Bitwidths == 0..MaxBits

\* No value yet.
None == 0 - 1

(***************************************************************************)
(* hash_to_curve.  The ciphertext is serialized (injectively) and the      *)
(* bytes are hashed into G2.  The hash is a fixed but unknown function: it *)
(* is deterministic, and nothing else is known of its values, which may    *)
(* collide and may be the identity of G2.  `oracle` records the values     *)
(* fixed so far as pairs <<data, h>>.                                      *)
(***************************************************************************)
serialize_uncompressed(ct) == <<ct[1], ct[2]>>

Hashed(o, data) == {p[2] : p \in {q \in o : q[1] = data}}

\* The values hasher().hash(&data) can have, given the values already fixed.
HashOutcomes(o, ct) ==
    IF Hashed(o, serialize_uncompressed(ct)) # {}
    THEN Hashed(o, serialize_uncompressed(ct))
    ELSE G2

Remember(o, ct, h) == o \cup {<<serialize_uncompressed(ct), h>>}

(***************************************************************************)
(* Sender, Auditor.                                                        *)
(***************************************************************************)
PublicKey(secret) == Mul(g1, FrFrom(secret))

\* The plaintext n as a Message.
Encode(n) == Mul(g1, FrFrom(n))

send_wrong(spk, ssk, msg, rpk) == <<spk, Add(rpk, msg)>>

\* Sender::send: ElGamal(self.pk, r.pk * self.sk + m)
send(spk, ssk, msg, rpk) == <<spk, Add(Mul(rpk, ssk), msg)>>

authenticate_wrong(ssk, hc) == Mul(hc, FrFrom(ssk + 1))

\* Sender::authenticate, given hash_c = c.hash_to_curve()
authenticate(ssk, hc) == Mul(hc, ssk)

check_auth_wrong(sender_pk, hc, tag) == pairing(g1, tag) # pairing(sender_pk, hc)

check_auth_lax(sender_pk, hc, tag) == TRUE

\* Auditor::check_auth, given hash_c = c.hash_to_curve()
check_auth(sender_pk, hc, tag) == pairing(g1, tag) = pairing(sender_pk, hc)

(***************************************************************************)
(* generate_message_space: ten distinct plaintexts below 2^64, scaled to   *)
(* ten distinct plaintexts below 2^MaxBits.                                *)
(***************************************************************************)
msgs == <<3, 14, 9, 7, 5, 4, 12, 10, 13, 15>>

generate_message_space == [k \in 1..Len(msgs) |-> Encode(msgs[k])]

messages == generate_message_space

(***************************************************************************)
(* The attack's pairing values.                                            *)
(***************************************************************************)
paired_wrong(rpk, ct, tag, hc) == Sub(pairing(ct[2], hc), pairing(ct[1], tag))

\* ups - divs (paired_msg), u1 - d1 (mpp)
paired(rpk, ct, tag, hc) == Sub(pairing(ct[2], hc), pairing(rpk, tag))

\* The candidates the loop "for msg in messages" reports.
candidates(pm, hc) == {k \in 1..Len(messages) : pm = pairing(messages[k], hc)}

(***************************************************************************)
(* State.                                                                  *)
(***************************************************************************)
VARIABLES
    oracle,         \* hash values fixed so far
    \* a sender, a receiver, a record and the attack on it (main, lines 155-186)
    pc, sk, sk2, x, c, ch, tag, rec, verdict, mpp, base, found,
    \* baby_giant
    bg_pc, max_bitwidth, a, b, m, table, j, am, gamma, i, result,
    \* main
    mpc, file, blob, hash_c, paired_msg, log

protoVars == <<pc, sk, sk2, x, c, ch, tag, rec, verdict, mpp, base, found>>
bgVars == <<bg_pc, max_bitwidth, a, b, m, table, j, am, gamma, i, result>>
mainVars == <<mpc, file, blob, hash_c, paired_msg, log>>
vars == <<oracle, protoVars, bgVars, mainVars>>

\* No record has been handed to the auditor.
NoRecord == [kind |-> "none", sender_pk |-> None, c |-> <<>>, s |-> None, h |-> None]

ProtoIdle ==
    /\ pc = "idle" /\ sk = None /\ sk2 = None /\ x = None /\ c = <<>>
    /\ ch = None /\ tag = None /\ rec = NoRecord /\ verdict = "none"
    /\ mpp = None /\ base = None /\ found = {}

BgIdle ==
    /\ bg_pc = "idle" /\ max_bitwidth = None /\ a = None /\ b = None
    /\ m = None /\ table = {} /\ j = None /\ am = None /\ gamma = None
    /\ i = None /\ result = None

\* struct Blob { sender_pk, c, s, rec_pk }, and what blob.bin may hold.
NoBlob == [kind |-> "none", sender_pk |-> None, c |-> <<>>, s |-> None, rec_pk |-> None]

MainIdle ==
    /\ mpc = "idle" /\ file = NoBlob /\ blob = NoBlob /\ hash_c = None
    /\ paired_msg = None /\ log = <<>>

(***************************************************************************)
(* baby_giant(max_bitwidth, a, b), one loop iteration per step.            *)
(***************************************************************************)
\* let m = 1u64 << (max_bitwidth / 2)
StepCount(bits) == Pow2(bits \div 2)

\* HashMap::insert: a later value replaces an earlier one under the same key.
insert(t, k, v) == {p \in t : p[1] # k} \cup {<<k, v>>}

get_or_zero(t, k) == IF \E p \in t : p[1] = k THEN {p[2] : p \in {q \in t : q[1] = k}} ELSE {0}

\* HashMap::get: the value under the key (Some(j)), or nothing (None).
get(t, k) == {p[2] : p \in {q \in t : q[1] = k}}

log_of_wrong(gi, gm, bj) == (gi + 1) * gm + bj

\* return i*m + j
log_of(gi, gm, bj) == gi * gm + bj

next_gamma_wrong(g, step) == Add(g, step)

\* gamma = gamma - &am
next_gamma(g, step) == Sub(g, step)

\* The call: m is computed and the table is empty.
BgCall(bits, ga, gb) ==
    /\ bg_pc' = "baby"
    /\ max_bitwidth' = bits /\ a' = ga /\ b' = gb
    /\ m' = StepCount(bits)
    /\ table' = {}
    /\ j' = 0
    /\ am' = None /\ gamma' = None /\ i' = None /\ result' = None

\* for j in 0u64..m { table.insert(a.mul(Fr::from(j)), j) }
BabyStep ==
    /\ bg_pc = "baby" /\ j < m
    /\ table' = insert(table, Mul(a, FrFrom(j)), j)
    /\ j' = j + 1
    /\ UNCHANGED <<bg_pc, max_bitwidth, a, b, m, am, gamma, i, result>>
    /\ UNCHANGED <<oracle, protoVars, mainVars>>

\* let am = a.mul(Fr::from(m)); let mut gamma = b.clone();
BabyDone ==
    /\ bg_pc = "baby" /\ j = m
    /\ am' = Mul(a, FrFrom(m))
    /\ gamma' = b
    /\ i' = 0
    /\ bg_pc' = "giant"
    /\ UNCHANGED <<max_bitwidth, a, b, m, table, j, result>>
    /\ UNCHANGED <<oracle, protoVars, mainVars>>

\* for i in 0u64..m { if let Some(j) = table.get(&gamma) { return i*m + j; }
\*                    gamma = gamma - &am; }
GiantStep ==
    /\ bg_pc = "giant" /\ i < m
    /\ IF get(table, gamma) # {}
       THEN /\ \E bj \in get(table, gamma) : result' = log_of(i, m, bj)
            /\ bg_pc' = "returned"
            /\ UNCHANGED <<gamma, i>>
       ELSE /\ gamma' = next_gamma(gamma, am)
            /\ i' = i + 1
            /\ UNCHANGED <<bg_pc, result>>
    /\ UNCHANGED <<max_bitwidth, a, b, m, table, j, am>>
    /\ UNCHANGED <<oracle, protoVars, mainVars>>

\* panic!("No discrete log found")
GiantDone ==
    /\ bg_pc = "giant" /\ i = m
    /\ bg_pc' = "panicked"
    /\ UNCHANGED <<max_bitwidth, a, b, m, table, j, am, gamma, i, result>>
    /\ UNCHANGED <<oracle, protoVars, mainVars>>

BgTerminated == bg_pc \in {"returned", "panicked"}

\* baby_giant called with any bit width and any two elements of GT.
BgStart ==
    /\ bg_pc = "idle"
    /\ \E bits \in Bitwidths, ga \in GT, gb \in GT : BgCall(bits, ga, gb)
    /\ UNCHANGED <<oracle, protoVars, mainVars>>

InitBG == oracle = {} /\ ProtoIdle /\ BgIdle /\ MainIdle

NextBG == BgStart \/ BabyStep \/ BabyDone \/ GiantStep \/ GiantDone

SpecBG == InitBG /\ [][NextBG]_vars

\* The loops of baby_giant are sequential code: an enabled step is taken.
SpecBGFair == InitBG /\ [][NextBG]_vars /\ WF_vars(NextBG)

(***************************************************************************)
(* Claims about baby_giant (SpecBG, SpecBGFair).                           *)
(***************************************************************************)
\* The integers n in [0, 2^max_bitwidth) with a*n = b.
BgLogs == {n \in 0..(Pow2(max_bitwidth) - 1) : Mul(a, FrFrom(n)) = b}

\* ceil(2^(bits/2)): the least k with k*k >= 2^bits.
CeilRoot(bits) ==
    CHOOSE k \in 0..Pow2(bits) :
        /\ k * k >= Pow2(bits)
        /\ \A l \in 0..(k - 1) : l * l < Pow2(bits)

\* C5: for every max_bitwidth, even or odd, every base a and every n below
\* 2^max_bitwidth, baby_giant(max_bitwidth, a, a*n) returns n, and the step
\* count m is ceil(2^(max_bitwidth/2)).
C5_SolverContract ==
    /\ bg_pc # "idle" => m = CeilRoot(max_bitwidth)
    /\ BgTerminated => \A n \in BgLogs : bg_pc = "returned" /\ result = n

\* C6: when no n in [0, 2^max_bitwidth) satisfies a*n = b, baby_giant makes at
\* most m baby steps and m giant steps, never returns a value, and ends in the
\* panic "No discrete log found"; every call terminates.
C6_FailureMode ==
    /\ [](bg_pc # "idle" /\ BgLogs = {} =>
            /\ bg_pc # "returned"
            /\ j <= m
            /\ (i # None => i <= m))
    /\ [](bg_pc # "idle" => <>BgTerminated)
    /\ [](bg_pc # "idle" /\ BgLogs = {} => <>(bg_pc = "panicked"))

C6_Witness == bg_pc = "panicked" /\ BgLogs = {} /\ m > 1 /\ i = m /\ j = m

\* C10 as stated: a returned value r satisfies a*r = b and is the least
\* non-negative integer that does, also when a is the identity.
C10_LeastLog ==
    bg_pc = "returned" =>
        /\ Mul(a, FrFrom(result)) = b
        /\ \A n \in 0..(result - 1) : Mul(a, FrFrom(n)) # b

\* C10 amended: a returned value r satisfies a*r = b, and r is the least such
\* non-negative integer when a is not the identity.
C10_LeastLogNonIdentity ==
    bg_pc = "returned" =>
        /\ Mul(a, FrFrom(result)) = b
        /\ (a # 0 => \A n \in 0..(result - 1) : Mul(a, FrFrom(n)) # b)

C10_Witness == bg_pc = "returned" /\ a # 0 /\ i > 0 /\ result > m

(***************************************************************************)
(* A sender with secret sk, a receiver with secret sk2 and a plaintext x:  *)
(* send, authenticate, check_auth, and the attack of main (lines 165-194)  *)
(* on the record, for any keys and plaintext instead of main's literals.   *)
(***************************************************************************)
\* Plaintexts: below 2^MaxBits and below the group order, as 2^64 < r.
Plain == {n \in 0..(Pow2(MaxBits) - 1) : n < Q}

Init ==
    /\ oracle = {}
    /\ pc = "keys"
    /\ sk \in Secrets /\ sk2 \in Secrets /\ x \in Plain
    /\ c = <<>> /\ ch = None /\ tag = None /\ rec = NoRecord /\ verdict = "none"
    /\ mpp = None /\ base = None /\ found = {}
    /\ BgIdle /\ MainIdle

\* let c = s.send(messages[0], &r);
Send ==
    /\ pc = "keys"
    /\ c' = send(PublicKey(sk), FrFrom(sk), Encode(x), PublicKey(sk2))
    /\ pc' = "sent"
    /\ UNCHANGED <<sk, sk2, x, ch, tag, rec, verdict, mpp, base, found>>
    /\ UNCHANGED <<oracle, bgVars, mainVars>>

\* let ch = c.hash_to_curve(); let a = s.authenticate(&c);
Authenticate ==
    /\ pc = "sent"
    /\ \E h \in HashOutcomes(oracle, c) :
        /\ oracle' = Remember(oracle, c, h)
        /\ ch' = h
        /\ tag' = authenticate(FrFrom(sk), h)
    /\ pc' = "authed"
    /\ UNCHANGED <<sk, sk2, x, c, rec, verdict, mpp, base, found>>
    /\ UNCHANGED <<bgVars, mainVars>>

\* The records put before the auditor: the sender's own, one whose tag was
\* made by Sender::authenticate under another secret, and one whose c2 was
\* changed after the tag was made.
Valid == [kind |-> "valid", sender_pk |-> PublicKey(sk), c |-> c, s |-> tag]

Forged(fsk) ==
    [kind |-> "forged", sender_pk |-> PublicKey(sk), c |-> c,
     s |-> authenticate(FrFrom(fsk), ch)]

Tampered(d) ==
    [kind |-> "tampered", sender_pk |-> PublicKey(sk),
     c |-> <<c[1], Add(c[2], d)>>, s |-> tag]

Records ==
    {Valid} \cup {Forged(fsk) : fsk \in Secrets \ {sk}}
            \cup {Tampered(d) : d \in 1..MaxDelta}

\* Auditor::check_auth(sender_pk, &c, s)
Audit ==
    /\ pc = "authed"
    /\ \E r \in Records :
        \E h \in HashOutcomes(oracle, r.c) :
            /\ oracle' = Remember(oracle, r.c, h)
            /\ rec' = [kind |-> r.kind, sender_pk |-> r.sender_pk, c |-> r.c,
                       s |-> r.s, h |-> h]
            /\ verdict' = IF check_auth(r.sender_pk, h, r.s) THEN "true" ELSE "false"
    /\ pc' = "audited"
    /\ UNCHANGED <<sk, sk2, x, c, ch, tag, mpp, base, found>>
    /\ UNCHANGED <<bgVars, mainVars>>

\* let u1 = pairing(c.1, ch); let d1 = pairing(pk2, a); let mpp = u1-d1;
\* let a = pairing(g1, ch);
Exploit ==
    /\ pc = "authed"
    /\ mpp' = paired(PublicKey(sk2), c, tag, ch)
    /\ base' = pairing(g1, ch)
    /\ pc' = "paired"
    /\ UNCHANGED <<sk, sk2, x, c, ch, tag, rec, verdict, found>>
    /\ UNCHANGED <<oracle, bgVars, mainVars>>

\* let plain_back = baby_giant(64, &a, &mpp), with any bit width that holds x.
Solve ==
    /\ pc = "paired" /\ bg_pc = "idle"
    /\ \E bits \in Bitwidths :
        /\ x < Pow2(bits)
        /\ BgCall(bits, base, mpp)
    /\ pc' = "solving"
    /\ UNCHANGED <<sk, sk2, x, c, ch, tag, rec, verdict, mpp, base, found>>
    /\ UNCHANGED <<oracle, mainVars>>

\* for msg in messages { if paired_msg == pairing(msg.0, hash_c) { println! } }
Match ==
    /\ pc = "paired"
    /\ found' = candidates(mpp, ch)
    /\ pc' = "matched"
    /\ UNCHANGED <<sk, sk2, x, c, ch, tag, rec, verdict, mpp, base>>
    /\ UNCHANGED <<oracle, bgVars, mainVars>>

Next ==
    \/ Send \/ Authenticate \/ Audit \/ Exploit \/ Solve \/ Match
    \/ BabyStep \/ BabyDone \/ GiantStep \/ GiantDone

Spec == Init /\ [][Next]_vars

(***************************************************************************)
(* Claims about the protocol and the attack (Spec).                        *)
(***************************************************************************)
\* C1: the auditor accepts the sender's own record, for every sender secret,
\* receiver key and plaintext: pairing(G, s) = pairing(pk, hash_to_curve(c)).
C1_ProtocolCorrect ==
    pc = "audited" /\ rec.kind = "valid" =>
        /\ verdict = "true"
        /\ pairing(g1, rec.s) = pairing(PublicKey(sk), rec.h)

C1_Witness ==
    /\ pc = "audited" /\ rec.kind = "valid" /\ verdict = "true"
    /\ sk # 0 /\ ch # 0 /\ x # 0

\* C2: for every valid record, pairing(c2, hash_to_curve(c)) minus
\* pairing(recipient_public, auth_tag) is pairing(message, hash_to_curve(c)):
\* the sender's secret cancels.
C2_Cancellation ==
    pc \in {"paired", "solving", "matched"} => mpp = pairing(Encode(x), ch)

C2_Witness ==
    /\ pc = "paired" /\ sk > 1 /\ sk2 > 1 /\ x > 1 /\ ch > 1
    /\ mpp = pairing(Encode(x), ch) /\ mpp # pairing(c[2], ch)

\* The solver was run by the attack with an even bit width and has ended.
SolvedEven == pc = "solving" /\ BgTerminated /\ max_bitwidth % 2 = 0

\* C3 as stated: for every valid record with plaintext x below 2^max_bitwidth,
\* max_bitwidth even, baby_giant(max_bitwidth, base, U - D) returns x.
C3_PathA ==
    SolvedEven => bg_pc = "returned" /\ result = x

\* C3 amended: the same, when hash_to_curve(c) is not the identity of G2.
C3_PathANonIdentity ==
    SolvedEven /\ ch # 0 => bg_pc = "returned" /\ result = x

C3_Witness ==
    /\ SolvedEven /\ ch # 0 /\ bg_pc = "returned" /\ result = x
    /\ x > m /\ sk # 0 /\ sk2 # 0

\* C4 as stated: for every valid record whose plaintext is candidate k, the
\* candidate loop reports candidate k and no other.
C4_PathB ==
    pc = "matched" => \A k \in 1..Len(msgs) : x = msgs[k] => found = {k}

\* C4 amended: the same, when hash_to_curve(c) is not the identity of G2.
C4_PathBNonIdentity ==
    pc = "matched" /\ ch # 0 =>
        \A k \in 1..Len(msgs) : x = msgs[k] => found = {k}

C4_Witness ==
    /\ pc = "matched" /\ ch # 0 /\ x = msgs[1] /\ found = {1}
    /\ sk # 0 /\ sk2 # 0

\* C7 as stated: a tag made under a secret other than the one of sender_public
\* is rejected, for every ciphertext, with the answer false.
C7_ForgedRejected ==
    pc = "audited" /\ rec.kind = "forged" => verdict = "false"

\* C7 amended: the same, when hash_to_curve(c) is not the identity of G2.
C7_ForgedRejectedNonIdentity ==
    pc = "audited" /\ rec.kind = "forged" /\ rec.h # 0 => verdict = "false"

C7_Witness ==
    pc = "audited" /\ rec.kind = "forged" /\ rec.h # 0 /\ verdict = "false"

\* C8 as stated: a valid record with c2 replaced by any other c2' is rejected.
C8_TamperRejected ==
    pc = "audited" /\ rec.kind = "tampered" => verdict = "false"

\* C8 amended: the record with c2 replaced is rejected exactly when the
\* sender's secret is not zero and the changed ciphertext hashes to another
\* point than the original.
C8_TamperRejectedUnlessCollision ==
    pc = "audited" /\ rec.kind = "tampered" =>
        (verdict = "false" <=> (FrFrom(sk) # 0 /\ rec.h # ch))

C8_Witness ==
    /\ pc = "audited" /\ rec.kind = "tampered" /\ rec.c[2] # c[2]
    /\ sk # 0 /\ rec.h # ch /\ verdict = "false"

(***************************************************************************)
(* main.                                                                   *)
(***************************************************************************)
\* let sk = Fr::from(8718712u64);
SelfSk == 8718712

\* let sk2 = Fr::from(87183453u64);
SelfSk2 == 87183453

Points == 0..MaxPoint

\* blob.bin: absent, not a serialized Blob, or a serialized Blob.
Files ==
    {[kind |-> k, sender_pk |-> None, c |-> <<>>, s |-> None, rec_pk |-> None] :
        k \in {"missing", "malformed"}}
    \cup
    {[kind |-> "blob", sender_pk |-> p, c |-> <<c1, c2>>, s |-> t, rec_pk |-> r] :
        p \in Points, c1 \in Points, c2 \in Points, t \in Points, r \in Points}

assert_ignored(cond) == TRUE

\* assert!(cond): the process goes on only when cond holds.
assert_passes(cond) == cond

InitMain ==
    /\ oracle = {}
    /\ ProtoIdle /\ BgIdle
    /\ mpc = "start"
    /\ file \in Files
    /\ blob = NoBlob /\ hash_c = None /\ paired_msg = None /\ log = <<>>

\* welcome(); puzzle(PUZZLE_DESCRIPTION); let messages = generate_message_space();
MainStart ==
    /\ mpc = "start"
    /\ mpc' = "generated"
    /\ log' = Append(log, "banner")
    /\ UNCHANGED <<file, blob, hash_c, paired_msg>>
    /\ UNCHANGED <<oracle, protoVars, bgVars>>

\* File::open("blob.bin").unwrap(); read_to_end(..).unwrap();
\* Blob::deserialize_uncompressed(..).unwrap()
MainLoad ==
    /\ mpc = "generated"
    /\ IF file.kind = "blob"
       THEN /\ blob' = file
            /\ mpc' = "loaded"
            /\ log' = Append(log, "load")
       ELSE /\ blob' = blob
            /\ mpc' = "aborted"
            /\ log' = Append(log, "abort")
    /\ UNCHANGED <<file, hash_c, paired_msg>>
    /\ UNCHANGED <<oracle, protoVars, bgVars>>

\* assert!(Auditor::check_auth(blob.sender_pk, &blob.c, blob.s));
MainAssert ==
    /\ mpc = "loaded"
    /\ \E h \in HashOutcomes(oracle, blob.c) :
        /\ oracle' = Remember(oracle, blob.c, h)
        /\ verdict' = IF check_auth(blob.sender_pk, h, blob.s) THEN "true" ELSE "false"
        /\ IF assert_passes(check_auth(blob.sender_pk, h, blob.s))
           THEN mpc' = "verified" /\ log' = Append(log, "check_auth")
           ELSE mpc' = "aborted" /\ log' = Append(log, "abort")
    /\ UNCHANGED <<file, blob, hash_c, paired_msg>>
    /\ UNCHANGED <<pc, sk, sk2, x, c, ch, tag, rec, mpp, base, found>>
    /\ UNCHANGED bgVars

\* let divs = pairing(blob.rec_pk, blob.s); let hash_c = blob.c.hash_to_curve();
\* let ups = pairing(blob.c.1, hash_c); let paired_msg = ups-divs;
MainExploit ==
    /\ mpc = "verified"
    /\ \E h \in HashOutcomes(oracle, blob.c) :
        /\ oracle' = Remember(oracle, blob.c, h)
        /\ hash_c' = h
        /\ paired_msg' = paired(blob.rec_pk, blob.c, blob.s, h)
    /\ mpc' = "exploited"
    /\ log' = Append(log, "pairing")
    /\ UNCHANGED <<file, blob>>
    /\ UNCHANGED <<protoVars, bgVars>>

\* Lines 155-176: the sender and receiver made from literals, send,
\* authenticate, mpp = u1 - d1 and a = pairing(g1, ch).
MainSelfTest ==
    /\ mpc = "exploited"
    /\ sk' = FrFrom(SelfSk)
    /\ sk2' = FrFrom(SelfSk2)
    /\ x' = msgs[1]
    /\ c' = send(PublicKey(SelfSk), FrFrom(SelfSk), messages[1], PublicKey(SelfSk2))
    /\ \E h \in HashOutcomes(oracle, c') :
        /\ oracle' = Remember(oracle, c', h)
        /\ ch' = h
        /\ tag' = authenticate(FrFrom(SelfSk), h)
        /\ mpp' = paired(PublicKey(SelfSk2), c', tag', h)
        /\ base' = pairing(g1, h)
    /\ mpc' = "selftest"
    /\ log' = Append(log, "pairing")
    /\ UNCHANGED <<pc, rec, verdict, found>>
    /\ UNCHANGED <<file, blob, hash_c, paired_msg>>
    /\ UNCHANGED bgVars

\* let plain_back = baby_giant(64, &a, &mpp); the width 64 is scaled to MaxBits.
MainSolve ==
    /\ mpc = "selftest" /\ bg_pc = "idle"
    /\ BgCall(MaxBits, base, mpp)
    /\ mpc' = "solving"
    /\ log' = Append(log, "dlog")
    /\ UNCHANGED <<file, blob, hash_c, paired_msg>>
    /\ UNCHANGED <<oracle, protoVars>>

\* println!("plain back: {}", plain_back);
MainPrintPlain ==
    /\ mpc = "solving" /\ bg_pc = "returned"
    /\ mpc' = "printed"
    /\ log' = Append(log, "plain back")
    /\ UNCHANGED <<file, blob, hash_c, paired_msg>>
    /\ UNCHANGED <<oracle, protoVars, bgVars>>

\* let pmi = pairing(messages[0].0, ch); if mpp == pmi { println!("match") }
MainMatch ==
    /\ mpc = "printed"
    /\ mpc' = "compared"
    /\ log' = IF mpp = pairing(messages[1], ch) THEN Append(log, "match") ELSE log
    /\ UNCHANGED <<file, blob, hash_c, paired_msg>>
    /\ UNCHANGED <<oracle, protoVars, bgVars>>

\* for msg in messages { if paired_msg == pairing(msg.0, hash_c) { println! } }
MainCandidates ==
    /\ mpc = "compared"
    /\ found' = candidates(paired_msg, hash_c)
    /\ mpc' = "done"
    /\ log' = IF found' # {} THEN Append(log, "msg found") ELSE log
    /\ UNCHANGED <<file, blob, hash_c, paired_msg>>
    /\ UNCHANGED <<pc, sk, sk2, x, c, ch, tag, rec, verdict, mpp, base>>
    /\ UNCHANGED <<oracle, bgVars>>

\* main's own call of baby_giant always finds a logarithm (MainSolverFinds), so
\* the panic of baby_giant is no step of main.
NextMain ==
    \/ MainStart \/ MainLoad \/ MainAssert \/ MainExploit \/ MainSelfTest
    \/ MainSolve \/ MainPrintPlain \/ MainMatch \/ MainCandidates
    \/ BabyStep \/ BabyDone \/ GiantStep

SpecMain == InitMain /\ [][NextMain]_vars

\* In main the giant steps never run out: the search ends by a return.
MainSolverFinds == mpc = "solving" /\ bg_pc = "giant" => i < m

(***************************************************************************)
(* Claim about main (SpecMain).                                            *)
(***************************************************************************)
\* What the attack does and prints.
ExploitEvents == {"pairing", "dlog", "plain back", "match", "msg found"}

ExploitStages == {"exploited", "selftest", "solving", "printed", "compared", "done"}

Exploiting == mpc \in ExploitStages \/ \E k \in 1..Len(log) : log[k] \in ExploitEvents

\* blob.bin was deserialized and the pairing equation holds of the blob.
Gated ==
    /\ file.kind = "blob" /\ blob = file
    /\ verdict = "true"
    /\ \E h \in Hashed(oracle, serialize_uncompressed(blob.c)) :
        pairing(g1, blob.s) = pairing(blob.sender_pk, h)

\* C9: main runs load, then check_auth, then the attack; nothing of the attack
\* (pairings on the record, the discrete-log search, candidate matching, any
\* output of a recovered plaintext) happens unless deserialization succeeded
\* and check_auth returned true, and main aborts where either fails.
C9_Gate ==
    /\ Exploiting =>
        /\ Gated
        /\ Len(log) >= 4
        /\ log[2] = "load" /\ log[3] = "check_auth"
        /\ \A k \in 1..3 : log[k] \notin ExploitEvents
    /\ file.kind # "blob" /\ mpc \notin {"start", "generated"} =>
        mpc = "aborted" /\ log = <<"banner", "abort">>
    /\ verdict = "false" =>
        mpc = "aborted" /\ log = <<"banner", "load", "abort">>
    /\ hash_c # None \/ paired_msg # None \/ found # {} \/ bg_pc # "idle" => Gated

C9_Witness ==
    /\ mpc = "done" /\ Gated /\ blob.sender_pk # 0
    /\ log = <<"banner", "load", "check_auth", "pairing", "pairing", "dlog",
               "plain back", "match", "msg found">>

====
